---- MODULE Spec2Model ----
(***************************************************************************)
(* Model of src/services/gemini.ts: the seven diagnostic probes of         *)
(* runGeminiTests and the client acquisition they share.                   *)
(*                                                                         *)
(* Text is modelled as a sequence of tokens (a token is a character or an  *)
(* indivisible piece of literal text); string concatenation is \o.         *)
(* A JavaScript value is a record tagged by its field t.                   *)
(***************************************************************************)
EXTENDS Integers, Sequences, FiniteSets, TLC

(* ------------------------------ bounds -------------------------------- *)
\* concurrent probe invocations in SpecConc
NumInvocations == 2
\* longest stream (fragments before the stream ends) in Spec
MaxChunks == 3
\* longest stream in SpecConc
MaxConcChunks == 2

(* --------------------------- JavaScript values ------------------------ *)
Undefined == [t |-> "undefined"]
Null == [t |-> "null"]
Str(s) == [t |-> "string", s |-> s]
\* an Error object: new Error(msg)
ErrorObj(msg) == [t |-> "Error", message |-> Str(msg)]
\* the TypeError the runtime raises on a property read of null/undefined,
\* or on iterating a value that is not iterable
TypeErrorObj == ErrorObj(<<"TypeError">>)

Nullish(v) == v.t \in {"undefined", "null"}
\* JavaScript truthiness: undefined, null and "" are falsy, objects are truthy
Truthy(v) == IF Nullish(v) THEN FALSE
             ELSE IF v.t = "string" THEN v.s # <<>>
             ELSE TRUE
\* v.name for a value v that is not null/undefined
Prop(v, name) == IF name \in DOMAIN v THEN v[name] ELSE Undefined
\* string conversion in `a + b` and in template literals
ToStringJS(v) == IF v.t = "string" THEN v.s
                 ELSE IF v.t = "undefined" THEN <<"undefined">>
                 ELSE IF v.t = "null" THEN <<"null">>
                 ELSE <<"[object Object]">>
\* String.prototype.toLowerCase, per character
LowerChar(c) == CASE c = "M" -> "m" [] c = "I" -> "i" [] c = "A" -> "a"
                  [] c = "U" -> "u" [] c = "H" -> "h" [] OTHER -> c
toLowerCase(s) == [k \in 1..Len(s) |-> LowerChar(s[k])]
\* String.prototype.includes: pat occurs in s as a contiguous substring
includes(s, pat) == \E k \in 0..(Len(s) - Len(pat)) :
                        SubSeq(s, k + 1, k + Len(pat)) = pat

(* ------------------------- completions of code ------------------------ *)
\* how a block of code ends: by `return r` or by `throw e`; warn holds the
\* console.warn calls it made
Return(r) == [kind |-> "return", value |-> r, warn |-> <<>>]
Throw(e) == [kind |-> "throw", value |-> e, warn |-> <<>>]
ThrowWarn(e, w) == [kind |-> "throw", value |-> e, warn |-> <<w>>]

(* ------------------------------ literals ------------------------------ *)
KeyMissingText == <<"API Key no encontrada en process.env.API_KEY">>
EmptyResponseText == <<"Respuesta vacía del servidor.">>
ConnectFallbackText == <<"Error de conexión">>
NotFollowedText == <<"El modelo no siguió la instrucción del sistema estrictamente.">>
MalformedText == <<"La respuesta no contiene valores de embedding. Revisa la consola para más detalles.">>
EmbeddingModel == "text-embedding-004"
Keyword == <<"m", "i", "a", "u">>

Probes == {"connect", "generateText", "streamText", "countTokens", "vision",
           "systemInstruction", "embedding"}

(* ------------------------- client acquisition ------------------------- *)
\* variant: only an unset credential counts as missing (apiKey === undefined)
KeyMissingUnsetOnly(key) == key = Undefined

\* if (!apiKey)
KeyMissing(key) == ~Truthy(key)

getAIClient(key) ==
    IF KeyMissing(key)
    THEN Throw(ErrorObj(KeyMissingText))
    ELSE Return([t |-> "client", apiKey |-> key])

(* ------------------ the code after the awaited call ------------------- *)
\* variant: the reply text is not tested (if (response))
connectBodyNoTextCheck(m, response) ==
    IF Truthy(response)
    THEN Return([success |-> TRUE,
                 message |-> Str(<<"Conexión exitosa con ", m, ".">>),
                 data |-> [reply |-> Prop(response, "text")]])
    ELSE Throw(ErrorObj(EmptyResponseText))

connectBody(m, response) ==
    IF Truthy(response) /\ Truthy(Prop(response, "text"))
    THEN Return([success |-> TRUE,
                 message |-> Str(<<"Conexión exitosa con ", m, ".">>),
                 data |-> [reply |-> response.text]])
    ELSE Throw(ErrorObj(EmptyResponseText))

generateTextBody(m, response) ==
    IF Nullish(response) THEN Throw(TypeErrorObj)
    ELSE Return([success |-> TRUE,
                 message |-> Str(<<"Generación de texto correcta.">>),
                 data |-> [model |-> m,
                           prompt |-> Str(<<"Responde con una sola palabra: 'Funciona'">>),
                           output |-> Prop(response, "text")]])

countTokensBody(m, response) ==
    IF Nullish(response) THEN Throw(TypeErrorObj)
    ELSE Return([success |-> TRUE,
                 message |-> Str(<<"Conteo de tokens exitoso.">>),
                 data |-> [model |-> m,
                           prompt |-> Str(<<"Why is the sky blue?">>),
                           totalTokens |-> Prop(response, "totalTokens")]])

visionBody(m, response) ==
    IF Nullish(response) THEN Throw(TypeErrorObj)
    ELSE Return([success |-> TRUE,
                 message |-> Str(<<"Análisis de visión completado.">>),
                 data |-> [model |-> m, output |-> Prop(response, "text")]])

systemInstructionBody(m, response) ==
    IF Nullish(response) THEN Throw(TypeErrorObj)
    ELSE LET text == IF Truthy(Prop(response, "text"))
                     THEN Prop(response, "text") ELSE Str(<<>>)
             isCorrect == includes(toLowerCase(text.s), Keyword)
         IN  Return([success |-> isCorrect,
                     message |-> IF isCorrect
                                 THEN Str(<<"Instrucción del sistema respetada.">>)
                                 ELSE Str(NotFollowedText),
                     data |-> [model |-> m,
                               instruction |-> Str(<<"Eres un gato. Responde solo con 'Miau'.">>),
                               prompt |-> Str(<<"Hola, ¿cómo estás?">>),
                               output |-> text]])

embeddingBody(m, response) ==
    IF /\ Truthy(response)
       /\ Truthy(Prop(response, "embedding"))
       /\ Truthy(Prop(Prop(response, "embedding"), "values"))
    THEN Return([success |-> TRUE,
                 message |-> Str(<<"Embedding generado correctamente.">>),
                 data |-> [model |-> EmbeddingModel,
                           vectorLength |-> Len(response.embedding.values.items)]])
    ELSE ThrowWarn(ErrorObj(MalformedText), response)

\* streamText after its stream has been drained
streamTextReturn(m, fullText, chunkCount) ==
    Return([success |-> TRUE,
            message |-> Str(<<"Streaming completado en ", ToString(chunkCount),
                              " fragmentos.">>),
            data |-> [model |-> m, fullText |-> Str(fullText),
                      chunkCount |-> chunkCount]])

Body(p, m, response) ==
    CASE p = "connect" -> connectBody(m, response)
      [] p = "generateText" -> generateTextBody(m, response)
      [] p = "countTokens" -> countTokensBody(m, response)
      [] p = "vision" -> visionBody(m, response)
      [] p = "systemInstruction" -> systemInstructionBody(m, response)
      [] p = "embedding" -> embeddingBody(m, response)

(* --------------------------- the catch blocks ------------------------- *)
\* `error.message` in a catch block: a TypeError when error is null/undefined
connectCatch(m, error) ==
    IF Nullish(error) THEN Throw(TypeErrorObj)
    ELSE Return([success |-> FALSE,
                 message |-> IF Truthy(Prop(error, "message"))
                             THEN Prop(error, "message")
                             ELSE Str(ConnectFallbackText)])

plainCatch(m, error) ==
    IF Nullish(error) THEN Throw(TypeErrorObj)
    ELSE Return([success |-> FALSE, message |-> Prop(error, "message")])

visionCatch(m, error) ==
    IF Nullish(error) THEN Throw(TypeErrorObj)
    ELSE Return([success |-> FALSE,
                 message |-> Str(<<"Error en visión (", m, "): ">>
                                 \o ToStringJS(Prop(error, "message")))])

Catch(p, m, error) ==
    CASE p = "connect" -> connectCatch(m, error)
      [] p = "vision" -> visionCatch(m, error)
      [] OTHER -> plainCatch(m, error)

\* try { block } catch (error) { ... }: the completion of the whole probe
TryCatch(p, m, block) ==
    IF block.kind = "throw"
    THEN [Catch(p, m, block.value) EXCEPT !.warn = block.warn]
    ELSE block

(* ------------------ what the collaborator can produce ----------------- *)
Response(fields) == [t |-> "response"] @@ fields
Array(items) == [t |-> "array", items |-> items]
Chunk(text) == [t |-> "chunk", text |-> text]
StreamHandle == [t |-> "stream"]

\* values of process.env.API_KEY: unset, empty, set
Keys == {Undefined, Str(<<>>), Str(<<"k">>)}
ModelIds == {"gemini-2.5-flash", "gemini-2.5-pro"}

Texts == {Undefined, Str(<<>>), Str(<<"pong">>),
          Str(<<"M", "i", "a", "u", "!">>), Str(<<"H", "e", "l", "l", "o">>),
          Str(<<"m", "i", "u", "a">>), Str(<<"O", "k", " ", "M", "I", "A", "U">>)}
GenResponses == {Undefined} \cup {Response([text |-> v]) : v \in Texts}
CountResponses == {Undefined, Response([totalTokens |-> 6])}
Vectors == {<<>>, <<1, 2>>, [k \in 1..768 |-> 0]}
EmbedResponses ==
    {Undefined, Response(<<>>), Response([embedding |-> [t |-> "object"]])}
    \cup {Response([embedding |-> [t |-> "object", values |-> Array(v)]]) :
              v \in Vectors}
StreamResponses == {Undefined, StreamHandle}
Responses(p) ==
    CASE p = "streamText" -> StreamResponses
      [] p = "countTokens" -> CountResponses
      [] p = "embedding" -> EmbedResponses
      [] OTHER -> GenResponses
\* values a rejected call or a failing stream can throw: an Error with text,
\* an Error without text, a value that is no Error, null, undefined
Errors == {ErrorObj(<<"quota exceeded">>), ErrorObj(<<>>), Str(<<"boom">>),
           Null, Undefined}
Chunks == {Chunk(Str(<<"1", ",">>)), Chunk(Str(<<"2", ",">>)),
           Chunk(Str(<<"3">>)), Chunk(Undefined)}

\* the smaller input sets of the concurrent specification
ConcKeys == {Undefined, Str(<<"k">>)}
ConcModelIds == {"gemini-2.5-flash"}
ConcResponses(p) ==
    CASE p = "streamText" -> {StreamHandle}
      [] p = "countTokens" -> {Response([totalTokens |-> 6])}
      [] p = "embedding" ->
           {Response(<<>>),
            Response([embedding |-> [t |-> "object", values |-> Array(<<1, 2>>)]])}
      [] OTHER -> {Response([text |-> Str(<<"M", "i", "a", "u", "!">>)])}
\* a rejected call carries an Error; a failing stream throws null
ConcRejections == {ErrorObj(<<"quota exceeded">>)}
ConcStreamFailures == {Null}
\* the stream of invocation i delivers fragments that name i
ConcChunks(i) == {Chunk(Str(<<ToString(i), ",">>))}

(* -------------------------------- state ------------------------------- *)
VARIABLES
    apiKey,        \* process.env.API_KEY
    console,       \* the console.warn calls made so far
    created,       \* number of GoogleGenAI clients constructed so far
    pc,            \* per invocation: "idle", "awaiting", "iterating", "done"
    probe,         \* per invocation: the probe invoked
    modelId,       \* per invocation: its modelId argument
    ai,            \* per invocation: its local `ai`
    fullText,      \* streamText's local fullText
    chunkCount,    \* streamText's local chunkCount
    outcome,       \* per invocation: how its promise settled
    requests,      \* per invocation: the remote requests it issued
    acquisitions,  \* per invocation: its calls of getAIClient
    keySeen,       \* per invocation: the API_KEY value getAIClient read
    settled,       \* per invocation: how its awaited call settled
    received,      \* per invocation: the fragments its stream delivered
    streamEnd      \* per invocation: how its stream ended

vars == <<apiKey, console, created, pc, probe, modelId, ai, fullText,
          chunkCount, outcome, requests, acquisitions, keySeen, settled,
          received, streamEnd>>

Invocations == 1..NumInvocations
None == [kind |-> "none"]

Init ==
    /\ apiKey \in Keys
    /\ console = <<>>
    /\ created = 0
    /\ pc = [i \in Invocations |-> "idle"]
    /\ probe = [i \in Invocations |-> "none"]
    /\ modelId = [i \in Invocations |-> "none"]
    /\ ai = [i \in Invocations |-> Undefined]
    /\ fullText = [i \in Invocations |-> <<>>]
    /\ chunkCount = [i \in Invocations |-> 0]
    /\ outcome = [i \in Invocations |-> None]
    /\ requests = [i \in Invocations |-> <<>>]
    /\ acquisitions = [i \in Invocations |-> 0]
    /\ keySeen = [i \in Invocations |-> None]
    /\ settled = [i \in Invocations |-> None]
    /\ received = [i \in Invocations |-> <<>>]
    /\ streamEnd = [i \in Invocations |-> None]

(* ------------------------------- actions ------------------------------ *)
\* the remote method a probe calls on its client
Method(p) ==
    CASE p = "streamText" -> "generateContentStream"
      [] p = "countTokens" -> "countTokens"
      [] p = "embedding" -> "embedContent"
      [] OTHER -> "generateContent"

\* variant: the accumulators are declared once, outside the probe
SlotShared(i) == 1

\* the accumulators `let fullText`, `let chunkCount` invocation i uses
Slot(i) == i

\* fullText += chunk.text
appendChunk(text, chunk) == text \o ToStringJS(Prop(chunk, "text"))

\* the probe's promise settles with completion c
Finish(i, c) ==
    /\ pc' = [pc EXCEPT ![i] = "done"]
    /\ outcome' = [outcome EXCEPT ![i] = [kind |-> c.kind, value |-> c.value]]
    /\ console' = console \o c.warn

\* the environment sets or clears the credential
SetEnv(k) ==
    /\ apiKey # k
    /\ apiKey' = k
    /\ UNCHANGED <<console, created, pc, probe, modelId, ai, fullText,
                   chunkCount, outcome, requests, acquisitions, keySeen,
                   settled, received, streamEnd>>

\* a caller invokes probe p with modelId m: the probe runs to its first await
Invoke(i, p, m) ==
    /\ pc[i] = "idle"
    /\ probe' = [probe EXCEPT ![i] = p]
    /\ modelId' = [modelId EXCEPT ![i] = m]
    /\ acquisitions' = [acquisitions EXCEPT ![i] = @ + 1]
    /\ keySeen' = [keySeen EXCEPT ![i] = apiKey]
    /\ LET c == getAIClient(apiKey) IN
       IF c.kind = "throw"
       THEN /\ Finish(i, TryCatch(p, m, c))
            /\ UNCHANGED <<created, ai, requests>>
       ELSE /\ created' = created + 1
            /\ ai' = [ai EXCEPT ![i] = c.value @@ [id |-> created + 1]]
            /\ requests' = [requests EXCEPT ![i] =
                   Append(@, [method |-> Method(p), client |-> created + 1])]
            /\ pc' = [pc EXCEPT ![i] = "awaiting"]
            /\ UNCHANGED <<outcome, console>>
    /\ UNCHANGED <<apiKey, fullText, chunkCount, settled, received, streamEnd>>

\* the awaited remote call resolves with r
Resolve(i, r) ==
    /\ pc[i] = "awaiting"
    /\ settled' = [settled EXCEPT ![i] = [kind |-> "resolve", value |-> r]]
    /\ IF probe[i] = "streamText"
       THEN /\ fullText' = [fullText EXCEPT ![Slot(i)] = <<>>]
            /\ chunkCount' = [chunkCount EXCEPT ![Slot(i)] = 0]
            /\ IF r.t = "stream"
               THEN /\ pc' = [pc EXCEPT ![i] = "iterating"]
                    /\ UNCHANGED <<outcome, console>>
               ELSE Finish(i, TryCatch(probe[i], modelId[i], Throw(TypeErrorObj)))
       ELSE /\ Finish(i, TryCatch(probe[i], modelId[i],
                                  Body(probe[i], modelId[i], r)))
            /\ UNCHANGED <<fullText, chunkCount>>
    /\ UNCHANGED <<apiKey, created, probe, modelId, ai, requests,
                   acquisitions, keySeen, received, streamEnd>>

\* variant: a rejected call is issued once more before the probe gives up
RejectRetry(i, e) ==
    /\ pc[i] = "awaiting"
    /\ IF Len(requests[i]) < 2
       THEN /\ requests' = [requests EXCEPT ![i] = Append(@, @[1])]
            /\ UNCHANGED <<pc, outcome, console, settled>>
       ELSE /\ settled' = [settled EXCEPT ![i] = [kind |-> "reject", value |-> e]]
            /\ Finish(i, TryCatch(probe[i], modelId[i], Throw(e)))
            /\ UNCHANGED requests
    /\ UNCHANGED <<apiKey, created, probe, modelId, ai, fullText, chunkCount,
                   acquisitions, keySeen, received, streamEnd>>

\* the awaited remote call rejects with e
Reject(i, e) ==
    /\ pc[i] = "awaiting"
    /\ settled' = [settled EXCEPT ![i] = [kind |-> "reject", value |-> e]]
    /\ Finish(i, TryCatch(probe[i], modelId[i], Throw(e)))
    /\ UNCHANGED <<apiKey, created, probe, modelId, ai, fullText, chunkCount,
                   requests, acquisitions, keySeen, received, streamEnd>>

\* the stream delivers fragment c: one turn of the for-await loop
StreamNext(i, c, max) ==
    /\ pc[i] = "iterating"
    /\ Len(received[i]) < max
    /\ received' = [received EXCEPT ![i] = Append(@, c)]
    /\ fullText' = [fullText EXCEPT ![Slot(i)] = appendChunk(@, c)]
    /\ chunkCount' = [chunkCount EXCEPT ![Slot(i)] = @ + 1]
    /\ UNCHANGED <<apiKey, console, created, pc, probe, modelId, ai, outcome,
                   requests, acquisitions, keySeen, settled, streamEnd>>

\* the stream fails with e
StreamFail(i, e) ==
    /\ pc[i] = "iterating"
    /\ streamEnd' = [streamEnd EXCEPT ![i] = [kind |-> "fail", value |-> e]]
    /\ Finish(i, TryCatch(probe[i], modelId[i], Throw(e)))
    /\ UNCHANGED <<apiKey, created, probe, modelId, ai, fullText, chunkCount,
                   requests, acquisitions, keySeen, settled, received>>

\* the stream signals completion
StreamDone(i) ==
    /\ pc[i] = "iterating"
    /\ streamEnd' = [streamEnd EXCEPT ![i] = [kind |-> "done"]]
    /\ Finish(i, streamTextReturn(modelId[i], fullText[Slot(i)],
                                  chunkCount[Slot(i)]))
    /\ UNCHANGED <<apiKey, created, probe, modelId, ai, fullText, chunkCount,
                   requests, acquisitions, keySeen, settled, received>>

\* the modelId a caller can pass to probe p (embedding takes none)
Args(p, ids) == IF p = "embedding" THEN {EmbeddingModel} ELSE ids

(* --------------------------- specifications --------------------------- *)
\* one probe invocation, over the full input sets
Next ==
    \/ \E k \in Keys : SetEnv(k)
    \/ \E p \in Probes : \E m \in Args(p, ModelIds) : Invoke(1, p, m)
    \/ \E r \in Responses(probe[1]) : Resolve(1, r)
    \/ \E e \in Errors : Reject(1, e)
    \/ \E c \in Chunks : StreamNext(1, c, MaxChunks)
    \/ \E e \in Errors : StreamFail(1, e)
    \/ StreamDone(1)

Spec == Init /\ [][Next]_vars

\* the collaborator settles every call it accepted, and a stream it opened
\* delivers its fragments and ends
Settle == \E r \in Responses(probe[1]), e \in Errors : Resolve(1, r) \/ Reject(1, e)
StreamStep ==
    \/ \E c \in Chunks : StreamNext(1, c, MaxChunks)
    \/ \E e \in Errors : StreamFail(1, e)
    \/ StreamDone(1)
FairSpec == Spec /\ WF_vars(Settle) /\ WF_vars(StreamStep)

\* NumInvocations probe invocations, interleaved at their suspension points
NextConc ==
    \/ \E k \in ConcKeys : SetEnv(k)
    \/ \E i \in Invocations : \E p \in Probes :
           \E m \in Args(p, ConcModelIds) : Invoke(i, p, m)
    \/ \E i \in Invocations : \E r \in ConcResponses(probe[i]) : Resolve(i, r)
    \/ \E i \in Invocations : \E e \in ConcRejections : Reject(i, e)
    \/ \E i \in Invocations : \E c \in ConcChunks(i) : StreamNext(i, c, MaxConcChunks)
    \/ \E i \in Invocations : \E e \in ConcStreamFailures : StreamFail(i, e)
    \/ \E i \in Invocations : StreamDone(i)

InitConc == Init /\ apiKey \in ConcKeys
SpecConc == InitConc /\ [][NextConc]_vars

(* ====================================================================== *)
(*                               properties                               *)
(* ====================================================================== *)
Done(i) == pc[i] = "done"
Returned(i) == Done(i) /\ outcome[i].kind = "return"
Result(i) == outcome[i].value
HasData(r) == "data" \in DOMAIN r
\* the credential is absent: unset or empty
KeyAbsent(k) == k = Undefined \/ k = Str(<<>>)
\* a failure record: success:false and no data
FailureRecord(r) == r.success = FALSE /\ ~HasData(r)
\* the texts of the fragments, in order, an absent text contributing nothing
RECURSIVE ConcatText(_)
ConcatText(chunks) ==
    IF chunks = <<>> THEN <<>>
    ELSE (IF chunks[1].text.t = "string" THEN chunks[1].text.s ELSE <<>>)
         \o ConcatText(Tail(chunks))
\* the accumulator after the loop has run over the fragments, one by one
RECURSIVE Accumulate(_, _)
Accumulate(text, chunks) ==
    IF chunks = <<>> THEN text
    ELSE Accumulate(appendChunk(text, chunks[1]), Tail(chunks))

\* C1: every probe, whatever the collaborator does (client acquisition
\* throwing, the call rejecting with any value, a fragment failing, response
\* validation failing), settles by returning a TestResult: no error escapes.
C1_NoErrorEscapes ==
    \A i \in Invocations : Done(i) => outcome[i].kind = "return"

\* C2: a probe invoked while API_KEY is unset or empty returns success:false
\* with a message containing the "API Key no encontrada ..." text, issues no
\* request, and raises nothing.
C2_MissingKeyIsFailureRecord ==
    \A i \in Invocations :
        (pc[i] # "idle" /\ KeyAbsent(keySeen[i])) =>
            /\ Returned(i)
            /\ FailureRecord(Result(i))
            /\ Result(i).message.t = "string"
            /\ includes(Result(i).message.s, KeyMissingText)
            /\ settled[i] = None

C2_Witness ==
    /\ Done(1) /\ probe[1] = "vision" /\ keySeen[1] = Str(<<>>)
    /\ Result(1).message.s # KeyMissingText

\* C3: every returned TestResult with success = false has a message that is
\* a string, whatever value the collaborator raised.
C3_FailureHasMessage ==
    \A i \in Invocations :
        (Returned(i) /\ Result(i).success = FALSE) =>
            Result(i).message.t = "string"

\* C5: streamText over a stream that delivers fragments f1..fn and then
\* signals completion returns success:true with chunkCount = n and fullText
\* = the fragments' text concatenated in arrival order.
C5_StreamConcatInOrder ==
    \A i \in Invocations :
        (probe[i] = "streamText" /\ streamEnd[i].kind = "done") =>
            /\ Returned(i)
            /\ Result(i).success = TRUE
            /\ Result(i).data.chunkCount = Len(received[i])
            /\ Result(i).data.fullText = Str(ConcatText(received[i]))

\* C6: streamText whose stream fails after k >= 0 fragments returns
\* success:false without data, the text and count of the k fragments being
\* nowhere in the record; success:true is returned only of a drained stream.
C6_PartialTextDiscarded ==
    \A i \in Invocations :
        /\ (probe[i] = "streamText" /\ streamEnd[i].kind = "fail") =>
               /\ Returned(i)
               /\ FailureRecord(Result(i))
               /\ DOMAIN Result(i) = {"success", "message"}
               /\ Result(i).message = Prop(streamEnd[i].value, "message")
        /\ (probe[i] = "streamText" /\ Returned(i) /\ Result(i).success = TRUE) =>
               streamEnd[i].kind = "done"

\* the text a completed call produced, absent text counting as empty
ProducedText(r) ==
    IF "text" \in DOMAIN r /\ r.text.t = "string" THEN r.text.s ELSE <<>>

\* C7: systemInstruction, whenever its call completes, returns success =
\* true iff the produced text contains "miau" case-insensitively; without the
\* keyword it returns success:false with the not-followed message and still
\* carries the data payload.
C7_KeywordDecidesSuccess ==
    \A i \in Invocations :
        (probe[i] = "systemInstruction" /\ settled[i].kind = "resolve") =>
            LET txt == ProducedText(settled[i].value)
                has == includes(toLowerCase(txt), Keyword)
            IN  /\ Returned(i)
                /\ Result(i).success = has
                /\ HasData(Result(i))
                /\ Result(i).data.output = Str(txt)
                /\ ~has => Result(i).message = Str(NotFollowedText)

\* the call completed with a non-empty text reply
NonEmptyReply(r) ==
    r.t = "response" /\ r.text.t = "string" /\ r.text.s # <<>>

\* C8: connect returns success:true iff its call completes with a non-empty
\* text reply, data.reply being that text; a completed call with absent or
\* empty text, or an absent response, gives success:false with the
\* empty-response message, which no failed call gives.
C8_ConnectNeedsReply ==
    \A i \in Invocations :
        probe[i] = "connect" =>
            /\ settled[i].kind = "resolve" =>
                   /\ Returned(i)
                   /\ Result(i).success = NonEmptyReply(settled[i].value)
                   /\ Result(i).success = TRUE =>
                          Result(i).data.reply = settled[i].value.text
                   /\ Result(i).success = FALSE =>
                          /\ Result(i).message = Str(EmptyResponseText)
                          /\ ~HasData(Result(i))
            /\ (Returned(i) /\ Result(i).success = TRUE) =>
                   settled[i].kind = "resolve"
            /\ (Returned(i) /\ settled[i].kind = "reject") =>
                   /\ Result(i).success = FALSE
                   /\ Result(i).message # Str(EmptyResponseText)

C8_Witness ==
    /\ Returned(1) /\ probe[1] = "connect"
    /\ settled[1] = [kind |-> "resolve", value |-> Response([text |-> Str(<<>>)])]
    /\ Result(1).success = FALSE

\* the response carries an embedding container with a vector in it
HasVector(r) ==
    /\ "embedding" \in DOMAIN r
    /\ "values" \in DOMAIN r.embedding
    /\ r.embedding.values.t = "array"

\* C9: embedding, whenever its call completes, returns success:true iff the
\* response has an embedding container with a vector, vectorLength being the
\* vector's length; otherwise it logs the raw response and returns
\* success:false with the malformed-response message; a failed call returns
\* success:false and logs nothing.
C9_EmbeddingNeedsVector ==
    \A i \in Invocations :
        probe[i] = "embedding" =>
            /\ settled[i].kind = "resolve" =>
                   /\ Returned(i)
                   /\ Result(i).success = HasVector(settled[i].value)
                   /\ Result(i).success = TRUE =>
                          /\ Result(i).data.vectorLength =
                                 Len(settled[i].value.embedding.values.items)
                          /\ console = <<>>
                   /\ Result(i).success = FALSE =>
                          /\ console = <<settled[i].value>>
                          /\ Result(i).message = Str(MalformedText)
            /\ settled[i].kind = "reject" =>
                   /\ Returned(i)
                   /\ FailureRecord(Result(i))
                   /\ console = <<>>

\* the probe's steps so far, as C10 states them
C10_Steps(i) ==
    /\ acquisitions[i] = (IF pc[i] = "idle" THEN 0 ELSE 1)
    /\ ai[i] # Undefined => (ai[i].t = "client" /\ ai[i].id \in 1..created)
    /\ pc[i] # "idle" =>
           Len(requests[i]) = (IF KeyAbsent(keySeen[i]) THEN 0 ELSE 1)
    /\ \A k \in 1..Len(requests[i]) :
           /\ requests[i][k].client = ai[i].id
           /\ requests[i][k].method = Method(probe[i])
    /\ created = Cardinality({j \in Invocations : ai[j] # Undefined})
    /\ pc[i] = "iterating" => chunkCount[i] = Len(received[i])
    /\ streamEnd[i].kind = "done" =>
           /\ Returned(i)
           /\ Result(i).data.chunkCount = Len(received[i])

\* C10: a probe acquires its client first and creates at most one; it issues
\* exactly one request, on that client, when the credential is present and
\* none when it is absent, never a second one after a failure; streamText
\* takes one step per fragment and returns once the stream signals
\* completion; a probe whose call settles and whose stream ends terminates.
C10_OneRequestThenTerminates ==
    /\ [](\A i \in Invocations : C10_Steps(i))
    /\ \A i \in Invocations : (pc[i] \in {"awaiting", "iterating"}) ~> Done(i)

C10_Witness ==
    /\ probe[1] = "streamText" /\ streamEnd[1].kind = "done"
    /\ Len(received[1]) = MaxChunks /\ Len(requests[1]) = 1

\* the outcome of probe p run alone on what the collaborator gave it
Alone(p, m, key, call, chunks, end) ==
    LET c == IF getAIClient(key).kind = "throw"
             THEN TryCatch(p, m, getAIClient(key))
             ELSE IF call.kind = "reject"
             THEN TryCatch(p, m, Throw(call.value))
             ELSE IF p # "streamText"
             THEN TryCatch(p, m, Body(p, m, call.value))
             ELSE IF call.value.t # "stream"
             THEN TryCatch(p, m, Throw(TypeErrorObj))
             ELSE IF end.kind = "fail"
             THEN TryCatch(p, m, Throw(end.value))
             ELSE streamTextReturn(m, Accumulate(<<>>, chunks), Len(chunks))
    IN  [kind |-> c.kind, value |-> c.value]

\* C4: under any interleaving of concurrent invocations, each invocation has
\* a client of its own, accumulates only its own fragments, and settles
\* exactly as it would if run alone on the same collaborator responses.
C4_Independent ==
    \A i \in Invocations :
        /\ \A j \in Invocations :
               (i # j /\ ai[i] # Undefined /\ ai[j] # Undefined) =>
                   ai[i].id # ai[j].id
        /\ \A k \in 1..Len(requests[i]) : requests[i][k].client = ai[i].id
        /\ pc[i] = "iterating" =>
               /\ fullText[i] = Accumulate(<<>>, received[i])
               /\ chunkCount[i] = Len(received[i])
        /\ Done(i) =>
               outcome[i] = Alone(probe[i], modelId[i], keySeen[i], settled[i],
                                  received[i], streamEnd[i])

\* invocation 1 started first and is still mid-stream when invocation 2,
\* started after it, has drained its own stream and returned
C4_Witness ==
    /\ probe[1] = "streamText" /\ probe[2] = "streamText"
    /\ ai[1] # Undefined /\ ai[2] # Undefined /\ ai[1].id < ai[2].id
    /\ pc[1] = "iterating" /\ Len(received[1]) = 1
    /\ Returned(2) /\ Len(received[2]) = MaxConcChunks
    /\ Result(2).data.fullText = Str(ConcatText(received[2]))
====
